---- MODULE Spec2Model ----
(***************************************************************************)
(* Inventory reservation and booking-transaction engine of PMS-CYNERZA.    *)
(*                                                                         *)
(* The store is a READ COMMITTED relational database with row locks.       *)
(*   inv, bookings, items, customers  : the committed rows                 *)
(*   lock[k]                          : the session holding the row lock   *)
(*                                      (SELECT ... FOR UPDATE) on k, or 0 *)
(*   dirty[p][k]                      : the uncommitted change of session  *)
(*                                      p to inventory row k; it is added  *)
(*                                      to inv on commit and dropped on    *)
(*                                      rollback                           *)
(* Every request handler runs in a session of its own (one per process);   *)
(* each await that reaches the database is one step of the process.        *)
(***************************************************************************)
EXTENDS Integers, Sequences, FiniteSets, TLC

\* ------------------------------------------------------------------ bounds
NumProcs == 2        \* concurrent request-handling sessions
NumRoomTypes == 2    \* room types in the catalog
TotalRooms == 2      \* RoomType.total_rooms of every room type
Horizon == 2         \* dates Today..Horizon have an inventory record
MaxQuantity == 2     \* largest num_rooms / quantity of a request
MaxOps == 2          \* requests handled in one behaviour of SpecReserve
MaxLedgerOps == 3    \* requests handled in one behaviour of Spec
MaxSoloOps == 4      \* requests handled in one behaviour of SpecSolo
MaxCancelOps == 3    \* requests handled in one behaviour of SpecCancel
MaxModifyOps == 3    \* requests handled in one behaviour of SpecModify
MaxBookings == 3     \* bookings the ledger holds
MaxScopeOps == 2     \* scopes opened in one behaviour of SpecScope
MaxRestores == 2     \* restore_inventory calls a scope makes for one footprint
MaxValidateOps == 2  \* requests handled in one behaviour of SpecValidate
MaxAmendOps == 3     \* requests handled in one behaviour of SpecAmend
MaxCheckOps == 1     \* check calls made in one behaviour of SpecCheck
MaxPrice == 2        \* largest Inventory.price of a record in SpecCheck
MaxUndoOps == 3      \* requests handled in one behaviour of SpecUndo
MaxGenerateOps == 3  \* requests handled in one behaviour of SpecGenerate
MaxPriceOps == 3     \* requests handled in one behaviour of SpecPrice

Today == 1           \* date.today()

Procs == 1..NumProcs
RoomTypes == 1..NumRoomTypes
NoRoomType == NumRoomTypes + 1          \* an id absent from the catalog
Dates == Today..Horizon                 \* dates with an inventory record
Keys == RoomTypes \X ((Today - 1)..(Horizon + 1))
Emails == {"a@x"}

\* RoomType.total_rooms / RoomType.base_price (read-only catalog)
total_rooms(r) == TotalRooms
base_price(r) == r

CONFIRMED == "confirmed"
CANCELLED == "cancelled"

VARIABLES
    inv,        \* committed Inventory rows: key -> [available_rooms, price]
    bookings,   \* committed Booking rows, id = index
    items,      \* committed BookingItem rows
    customers,  \* committed Customer rows (email), id = index
    lock,       \* row lock owner per inventory key, 0 = free
    dirty,      \* per session: uncommitted delta of available_rooms per key
    pc,         \* per session: position in its handler
    req,        \* per session: the request being handled
    ri,         \* per session: index into the room request list
    di,         \* per session: the date the reserve/restore loop is at
    acc,        \* per session: price accumulators [est, total]
    cust,       \* per session: customer id found by get_or_create_customer, 0 = new
    result,     \* per session: outcome of the last finished request
    budget      \* requests that may still be started

vars == <<inv, bookings, items, customers, lock, dirty, pc, req, ri, di, acc,
          cust, result, budget>>

store == <<inv, bookings, items, customers>>

\* ----------------------------------------------------------------- helpers
\* app.utils.date_utils.get_date_list: start inclusive, end exclusive, ascending
get_date_list(start_date, end_date) == start_date..(end_date - 1)

RECURSIVE SumOver(_, _)
SumOver(f, S) ==
    IF S = {} THEN 0
    ELSE LET x == CHOOSE y \in S : TRUE IN f[x] + SumOver(f, S \ {x})

\* the largest element where the smallest is wanted
Max(S) == CHOOSE x \in S : \A y \in S : x >= y

Min(S) == CHOOSE x \in S : \A y \in S : x <= y

RECURSIVE SeqSum(_)
SeqSum(s) == IF s = <<>> THEN 0 ELSE Head(s) + SeqSum(Tail(s))

NoDirty == [k \in Keys |-> 0]

\* a read that sees the uncommitted changes of every session
AvailUncommitted(p, k) ==
    inv[k].available_rooms + SumOver([q \in Procs |-> dirty[q][k]], Procs)

\* a read that sees the committed row only, not the session's own change
AvailCommitted(p, k) == inv[k].available_rooms

\* what session p reads from inventory row k: the committed row plus its own
\* uncommitted change (other sessions' uncommitted changes are invisible)
Avail(p, k) == inv[k].available_rooms + dirty[p][k]

\* the outcome of a handler: the booking returned or the exception raised
\* (kind), the step that raised it (at), and for an exception raised inside
\* the reservation loop the date and the room request it was at
NoResult == [kind |-> "none", at |-> "none", date |-> 0, line |-> 0]
Ok == [kind |-> "ok", at |-> "commit", date |-> 0, line |-> 0]
Err(kind, at, d, i) == [kind |-> kind, at |-> at, date |-> d, line |-> i]

NoReq == [op |-> "none"]

\* ------------------------------------------------------------ initial state
\* generate_inventory: one row per (room type, date of the horizon) holding
\* available_rooms = total_rooms and price = base_price
generate_inventory ==
    [k \in RoomTypes \X Dates |->
        [available_rooms |-> total_rooms(k[1]), price |-> base_price(k[1])]]

InitLocals ==
    /\ lock = [k \in Keys |-> 0]
    /\ dirty = [p \in Procs |-> NoDirty]
    /\ pc = [p \in Procs |-> "idle"]
    /\ req = [p \in Procs |-> NoReq]
    /\ ri = [p \in Procs |-> 0]
    /\ di = [p \in Procs |-> 0]
    /\ acc = [p \in Procs |-> [est |-> 0, total |-> 0]]
    /\ cust = [p \in Procs |-> 0]
    /\ result = [p \in Procs |-> NoResult]

\* freshly generated inventory, empty ledger, all sessions idle
Fresh ==
    /\ inv = generate_inventory
    /\ bookings = <<>>
    /\ items = {}
    /\ customers = <<>>
    /\ InitLocals

Init ==
    /\ Fresh
    /\ budget = MaxLedgerOps

\* ------------------------------------------------------- transaction scope
\* the locks session p holds are released when its scope ends
Release(p) == [k \in Keys |-> IF lock[k] = p THEN 0 ELSE lock[k]]

ResetLocals(p) ==
    /\ ri' = [ri EXCEPT ![p] = 0]
    /\ di' = [di EXCEPT ![p] = 0]
    /\ acc' = [acc EXCEPT ![p] = [est |-> 0, total |-> 0]]
    /\ cust' = [cust EXCEPT ![p] = 0]

\* a failure path that commits the changes made so far
RollbackPartial(p, e) ==
    /\ inv' = [k \in DOMAIN inv |->
                  [inv[k] EXCEPT !.available_rooms = @ + dirty[p][k]]]
    /\ dirty' = [dirty EXCEPT ![p] = NoDirty]
    /\ lock' = [k \in Keys |-> IF lock[k] = p THEN 0 ELSE lock[k]]
    /\ pc' = [pc EXCEPT ![p] = "idle"]
    /\ result' = [result EXCEPT ![p] = e]
    /\ ResetLocals(p)
    /\ UNCHANGED <<bookings, items, customers, req, budget>>

\* a failure path that releases the locks but keeps the session's changes
RollbackKeep(p, e) ==
    /\ lock' = [k \in Keys |-> IF lock[k] = p THEN 0 ELSE lock[k]]
    /\ pc' = [pc EXCEPT ![p] = "idle"]
    /\ result' = [result EXCEPT ![p] = e]
    /\ ResetLocals(p)
    /\ UNCHANGED <<store, dirty, req, budget>>

\* an exception leaves `async with db.begin_nested()`: the savepoint is
\* rolled back (changes dropped, row locks released), nothing is committed
\* and the handler returns the error
Rollback(p, e) ==
    /\ dirty' = [dirty EXCEPT ![p] = NoDirty]
    /\ lock' = Release(p)
    /\ pc' = [pc EXCEPT ![p] = "idle"]
    /\ result' = [result EXCEPT ![p] = e]
    /\ ResetLocals(p)
    /\ UNCHANGED <<store, req, budget>>

\* db.commit(): the session's inventory changes become the committed rows
CommitInv(p) ==
    [k \in DOMAIN inv |->
        [inv[k] EXCEPT !.available_rooms = @ + dirty[p][k]]]

Finish(p) ==
    /\ dirty' = [dirty EXCEPT ![p] = NoDirty]
    /\ lock' = Release(p)
    /\ pc' = [pc EXCEPT ![p] = "idle"]
    /\ result' = [result EXCEPT ![p] = Ok]
    /\ ResetLocals(p)
    /\ UNCHANGED <<req, budget>>

\* a handler starts on an idle session
Begin(p, r, to) ==
    /\ pc[p] = "idle"
    /\ budget > 0
    /\ budget' = budget - 1
    /\ req' = [req EXCEPT ![p] = r]
    /\ pc' = [pc EXCEPT ![p] = to]
    /\ result' = [result EXCEPT ![p] = NoResult]

\* a handler that fails before it opened its scope
Reject(p, r, e) ==
    /\ pc[p] = "idle"
    /\ budget > 0
    /\ budget' = budget - 1
    /\ req' = [req EXCEPT ![p] = r]
    /\ result' = [result EXCEPT ![p] = e]
    /\ UNCHANGED <<store, lock, dirty, pc, ri, di, acc, cust>>

\* bookings being created by sessions that have not finished yet
InFlight == Cardinality({p \in Procs : pc[p] # "idle" /\ req[p].op \in {"create", "multi"}})

\* ---------------------------------------------------- AvailabilityChecker
\* an advisory check that lets every request through
check_availability_skipped(p, room_type_id, start_date, end_date, num_rooms) ==
    [err |-> "none", is_available |-> TRUE, min_available |-> num_rooms,
     total_price |-> 0]

\* an advisory check that counts a date without a record as a date with no
\* room left
check_availability_zero(p, room_type_id, start_date, end_date, num_rooms) ==
    IF end_date <= start_date \/ start_date < Today
    THEN [err |-> "InvalidDateRange", is_available |-> FALSE,
          min_available |-> 0, total_price |-> 0]
    ELSE LET required_dates == get_date_list(start_date, end_date)
             found == {d \in required_dates : <<room_type_id, d>> \in DOMAIN inv}
             min_available ==
                 IF found # required_dates THEN 0
                 ELSE Min({Avail(p, <<room_type_id, d>>) : d \in found})
         IN  [err |-> "none", is_available |-> min_available >= num_rooms,
              min_available |-> min_available,
              total_price |->
                  SumOver([d \in found |-> inv[<<room_type_id, d>>].price], found)
                      * num_rooms]

\* check_availability: no lock is taken; returns (is_available,
\* min_available, total_price) or raises
check_availability(p, room_type_id, start_date, end_date, num_rooms) ==
    IF end_date <= start_date \/ start_date < Today
    THEN [err |-> "InvalidDateRange", is_available |-> FALSE,
          min_available |-> 0, total_price |-> 0]
    ELSE LET required_dates == get_date_list(start_date, end_date)
             missing_dates == {d \in required_dates : <<room_type_id, d>> \notin DOMAIN inv}
         IN  IF missing_dates # {}
             THEN [err |-> "InventoryNotFound", is_available |-> FALSE,
                   min_available |-> 0, total_price |-> 0]
             ELSE LET min_available == Min({Avail(p, <<room_type_id, d>>) : d \in required_dates})
                      total_price ==
                          SumOver([d \in required_dates |-> inv[<<room_type_id, d>>].price],
                                  required_dates) * num_rooms
                  IN  [err |-> "none", is_available |-> min_available >= num_rooms,
                       min_available |-> min_available, total_price |-> total_price]

\* ------------------------------------------------- ReservationCoordinator
\* the position after the loop body of reserve_inventory for (ri, di): the
\* next date, the next room request, or the step after the reservations
AfterReserve(p) ==
    IF di[p] + 1 < req[p].check_out
    THEN /\ di' = [di EXCEPT ![p] = @ + 1]
         /\ UNCHANGED <<ri, pc>>
    ELSE IF ri[p] < Len(req[p].rooms)
    THEN /\ ri' = [ri EXCEPT ![p] = @ + 1]
         /\ di' = [di EXCEPT ![p] = req[p].check_in]
         /\ UNCHANGED pc
    ELSE IF req[p].op = "scope"
    THEN /\ pc' = [pc EXCEPT ![p] = "restore"]
         /\ di' = [di EXCEPT ![p] = req[p].old.check_in]
         /\ UNCHANGED ri
    ELSE /\ pc' = [pc EXCEPT ![p] = IF req[p].op = "modify" THEN "commit" ELSE "customer"]
         /\ UNCHANGED <<ri, di>>

\* a deduction of one room whatever the quantity
DeductOne(available_rooms, num_rooms) == available_rooms - 1

\* the deduction reserve_inventory applies to a row it has locked and checked
Deduct(available_rooms, num_rooms) == available_rooms - num_rooms

\* a re-check that only looks whether any room is left
InsufficientEmpty(available_rooms, num_rooms) == available_rooms <= 0

\* the re-check reserve_inventory makes after locking the row (the assert
\* that follows the deduction restates it and never fires)
Insufficient(available_rooms, num_rooms) == available_rooms < num_rooms

\* a select that does not wait for the row lock
CanLockAlways(p, k) == TRUE

\* may session p take the row lock on k now (SELECT ... FOR UPDATE blocks
\* while another session holds it)
CanLock(p, k) == lock[k] \in {0, p}

\* reserve_inventory, one iteration of its loop over required_dates
reserve_inventory(p) ==
    /\ pc[p] = "reserve"
    /\ LET room_req == req[p].rooms[ri[p]]
           k == <<room_req.room_type_id, di[p]>>
       IN  IF k \notin DOMAIN inv
           THEN Rollback(p, Err("InventoryNotFound", "reserve", di[p], ri[p]))
           ELSE /\ CanLock(p, k)
                /\ IF Insufficient(Avail(p, k), room_req.quantity)
                   THEN Rollback(p, Err("InventoryUnavailable", "reserve", di[p], ri[p]))
                   ELSE /\ lock' = [lock EXCEPT ![k] = p]
                        /\ dirty' = [dirty EXCEPT ![p][k] =
                                        Deduct(Avail(p, k), room_req.quantity)
                                        - inv[k].available_rooms]
                        /\ acc' = [acc EXCEPT ![p].total =
                                        @ + inv[k].price * room_req.quantity]
                        /\ AfterReserve(p)
                        /\ UNCHANGED <<store, req, cust, result, budget>>

\* ------------------------------------------------------- CustomerDirectory
\* get_or_create_customer: select by email, insert when there is none
\* (scalar_one_or_none raises when the select returns several rows)
get_or_create_customer(p) ==
    /\ pc[p] = "customer"
    /\ LET found == {c \in 1..Len(customers) : customers[c] = req[p].email}
       IN  IF Cardinality(found) > 1
           THEN Rollback(p, Err("MultipleResultsFound", "customer", 0, 0))
           ELSE /\ cust' = [cust EXCEPT ![p] =
                               IF found = {} THEN 0 ELSE CHOOSE c \in found : TRUE]
                /\ pc' = [pc EXCEPT ![p] = "commit"]
                /\ UNCHANGED <<store, lock, dirty, req, ri, di, acc, result, budget>>

\* the customer rows and the customer id after session p commits
CommitCustomers(p) ==
    IF cust[p] = 0 THEN Append(customers, req[p].email) ELSE customers
customer_id(p) == IF cust[p] = 0 THEN Len(customers) + 1 ELSE cust[p]

\* ------------------------------------------------ BookingLedger: create
CreateRequests ==
    [op : {"create"},
     check_in : Today..Horizon,
     check_out : (Today + 1)..(Horizon + 1),
     rooms : {<<[room_type_id |-> r, quantity |-> n]>> :
                 r \in RoomTypes, n \in 1..MaxQuantity},
     email : Emails]

\* create_booking, steps 1-3: date validation, room type lookup and the
\* advisory availability check, all before the scope opens
create_booking(p, R) ==
    \E r \in R :
      /\ Len(bookings) + InFlight < MaxBookings
      /\ LET room_type_id == r.rooms[1].room_type_id
             num_rooms == r.rooms[1].quantity
             chk == check_availability(p, room_type_id, r.check_in, r.check_out, num_rooms)
         IN  IF r.check_out <= r.check_in \/ r.check_in < Today
             THEN Reject(p, r, Err("InvalidDateRange", "validate", 0, 0))
             ELSE IF room_type_id \notin RoomTypes
             THEN Reject(p, r, Err("RoomTypeNotFound", "validate", 0, 0))
             ELSE IF chk.err # "none"
             THEN Reject(p, r, Err(chk.err, "precheck", 0, 0))
             ELSE IF ~chk.is_available
             THEN Reject(p, r, Err("InventoryUnavailable", "precheck", 0, 0))
             ELSE /\ Begin(p, r, "reserve")
                  /\ ri' = [ri EXCEPT ![p] = 1]
                  /\ di' = [di EXCEPT ![p] = r.check_in]
                  /\ acc' = [acc EXCEPT ![p] = [est |-> chk.total_price, total |-> 0]]
                  /\ UNCHANGED <<store, lock, dirty, cust>>

\* a booking that stores the estimate of the advisory check
TotalAmountEstimated(p) == acc[p].est

\* total_amount = await reserve_inventory(...): the value the booking stores
TotalAmount(p) == acc[p].total

\* create_booking, steps 4c-5: insert the booking and commit
create_booking_commit(p) ==
    /\ pc[p] = "commit"
    /\ req[p].op = "create"
    /\ inv' = CommitInv(p)
    /\ customers' = CommitCustomers(p)
    /\ bookings' = Append(bookings,
           [customer_id |-> customer_id(p),
            room_type_id |-> req[p].rooms[1].room_type_id,
            check_in |-> req[p].check_in,
            check_out |-> req[p].check_out,
            num_rooms |-> req[p].rooms[1].quantity,
            total_amount |-> TotalAmount(p),
            status |-> CONFIRMED,
            notes |-> <<>>])
    /\ UNCHANGED items
    /\ Finish(p)

\* ------------------------------------------- BookingLedger: multi-room create
MultiRequests ==
    [op : {"multi"},
     check_in : {Today},
     check_out : {Horizon + 1},
     rooms : {<<[room_type_id |-> r1, quantity |-> n1],
                [room_type_id |-> r2, quantity |-> n2]>> :
                 r1 \in RoomTypes, r2 \in RoomTypes,
                 n1 \in 1..MaxQuantity, n2 \in 1..MaxQuantity},
     email : Emails]

\* create_multi_room_booking, step 1: date validation, empty request list
create_multi_room_booking(p, R) ==
    \E r \in R :
      /\ Len(bookings) + InFlight < MaxBookings
      /\ IF r.check_out <= r.check_in \/ r.check_in < Today
         THEN Reject(p, r, Err("InvalidDateRange", "validate", 0, 0))
         ELSE IF r.rooms = <<>>
         THEN Reject(p, r, Err("ValueError", "validate", 0, 0))
         ELSE /\ Begin(p, r, "precheck")
              /\ ri' = [ri EXCEPT ![p] = 1]
              /\ UNCHANGED <<store, lock, dirty, di, acc, cust>>

\* create_multi_room_booking, step 2, one iteration of the loop over
\* room_requests: room type lookup and advisory check, price accumulated
multi_precheck(p) ==
    /\ pc[p] = "precheck"
    /\ LET room_req == req[p].rooms[ri[p]]
           chk == check_availability(p, room_req.room_type_id, req[p].check_in,
                                     req[p].check_out, room_req.quantity)
       IN  IF room_req.room_type_id \notin RoomTypes
           THEN Rollback(p, Err("RoomTypeNotFound", "precheck", 0, ri[p]))
           ELSE IF chk.err # "none"
           THEN Rollback(p, Err(chk.err, "precheck", 0, ri[p]))
           ELSE IF ~chk.is_available
           THEN Rollback(p, Err("InventoryUnavailable", "precheck", 0, ri[p]))
           ELSE /\ acc' = [acc EXCEPT ![p].est = @ + chk.total_price]
                /\ IF ri[p] < Len(req[p].rooms)
                   THEN /\ ri' = [ri EXCEPT ![p] = @ + 1]
                        /\ UNCHANGED <<pc, di>>
                   ELSE /\ ri' = [ri EXCEPT ![p] = 1]
                        /\ di' = [di EXCEPT ![p] = req[p].check_in]
                        /\ pc' = [pc EXCEPT ![p] = "reserve"]
                /\ UNCHANGED <<store, lock, dirty, req, cust, result, budget>>

\* an insert of the first room request's BookingItem only
BookingItemsFirst(b, rooms) ==
    {[booking_id |-> b, line |-> 1,
      room_type_id |-> rooms[1].room_type_id,
      quantity |-> rooms[1].quantity,
      price_per_night |-> base_price(rooms[1].room_type_id)]}

\* the BookingItem rows create_multi_room_booking inserts for booking id b
BookingItems(b, rooms) ==
    {[booking_id |-> b, line |-> i,
      room_type_id |-> rooms[i].room_type_id,
      quantity |-> rooms[i].quantity,
      price_per_night |-> base_price(rooms[i].room_type_id)] : i \in 1..Len(rooms)}

\* create_multi_room_booking, steps 3c-4: parent booking, items, commit
create_multi_room_booking_commit(p) ==
    /\ pc[p] = "commit"
    /\ req[p].op = "multi"
    /\ inv' = CommitInv(p)
    /\ customers' = CommitCustomers(p)
    /\ bookings' = Append(bookings,
           [customer_id |-> customer_id(p),
            room_type_id |-> req[p].rooms[1].room_type_id,
            check_in |-> req[p].check_in,
            check_out |-> req[p].check_out,
            num_rooms |-> SeqSum([i \in 1..Len(req[p].rooms) |-> req[p].rooms[i].quantity]),
            total_amount |-> acc[p].est,
            status |-> CONFIRMED,
            notes |-> <<>>])
    /\ items' = items \cup BookingItems(Len(bookings) + 1, req[p].rooms)
    /\ Finish(p)

\* ---------------------------------------------------- CompensationManager
\* the footprint cancel_booking hands to restore_inventory: the booking's
\* own room_type_id, check_in, check_out and num_rooms
Footprint(b) ==
    [room_type_id |-> b.room_type_id, check_in |-> b.check_in,
     check_out |-> b.check_out, num_rooms |-> b.num_rooms]

\* an increment that stops at total_rooms of the room type
RestoredCapped(k, available_rooms, num_rooms) ==
    IF available_rooms + num_rooms > total_rooms(k[1])
    THEN total_rooms(k[1])
    ELSE available_rooms + num_rooms

\* an increment of one room whatever the booking held
RestoredOne(k, available_rooms, num_rooms) == available_rooms + 1

\* the increment restore_inventory applies to the row of key k
Restored(k, available_rooms, num_rooms) == available_rooms + num_rooms

\* restore_inventory, one iteration of its loop over required_dates; a date
\* without a row is skipped
restore_inventory(p) ==
    /\ pc[p] = "restore"
    /\ LET k == <<req[p].old.room_type_id, di[p]>>
       IN  IF k \in DOMAIN inv
           THEN /\ CanLock(p, k)
                /\ lock' = [lock EXCEPT ![k] = p]
                /\ dirty' = [dirty EXCEPT ![p][k] =
                                Restored(k, Avail(p, k), req[p].old.num_rooms)
                                - inv[k].available_rooms]
           ELSE UNCHANGED <<lock, dirty>>
    /\ IF di[p] + 1 < req[p].old.check_out
       THEN /\ di' = [di EXCEPT ![p] = @ + 1]
            /\ UNCHANGED <<pc, ri>>
       ELSE IF req[p].op = "scope" /\ ri[p] < req[p].restores
       THEN /\ ri' = [ri EXCEPT ![p] = @ + 1]
            /\ di' = [di EXCEPT ![p] = req[p].old.check_in]
            /\ UNCHANGED pc
       ELSE /\ pc' = [pc EXCEPT ![p] = IF req[p].op = "modify" THEN "recheck" ELSE "commit"]
            /\ UNCHANGED <<di, ri>>
    /\ UNCHANGED <<store, req, acc, cust, result, budget>>

\* ------------------------------------- callers of the inventory service
\* a caller opens a scope, calls reserve_inventory (or not) and then
\* restore_inventory `restores` times, all with the same arguments, and
\* commits
ScopeRequests ==
    [op : {"scope"},
     reserve : BOOLEAN,
     restores : 1..MaxRestores,
     check_in : {Today},
     check_out : (Today + 1)..(Horizon + 2),
     rooms : {<<[room_type_id |-> r, quantity |-> n]>> :
                 r \in RoomTypes, n \in 1..MaxQuantity}]

scope_begin(p, R) ==
    \E r \in R :
      /\ Begin(p, [op |-> "scope", reserve |-> r.reserve, restores |-> r.restores,
                   check_in |-> r.check_in, check_out |-> r.check_out,
                   rooms |-> r.rooms,
                   old |-> [room_type_id |-> r.rooms[1].room_type_id,
                            check_in |-> r.check_in, check_out |-> r.check_out,
                            num_rooms |-> r.rooms[1].quantity]],
               IF r.reserve THEN "reserve" ELSE "restore")
      /\ ri' = [ri EXCEPT ![p] = 1]
      /\ di' = [di EXCEPT ![p] = r.check_in]
      /\ UNCHANGED <<store, lock, dirty, acc, cust>>

scope_commit(p) ==
    /\ pc[p] = "commit"
    /\ req[p].op = "scope"
    /\ inv' = CommitInv(p)
    /\ UNCHANGED <<bookings, items, customers>>
    /\ Finish(p)

\* a caller of check_availability alone (the availability query): the tuple
\* it returns or the exception it raises is the outcome of the call
CheckRequests ==
    [op : {"check"},
     check_in : (Today - 1)..Horizon,
     check_out : Today..(Horizon + 2),
     rooms : {<<[room_type_id |-> r, quantity |-> n]>> :
                 r \in RoomTypes, n \in 1..MaxQuantity}]

Checked(chk) ==
    [kind |-> "ok", at |-> "check", date |-> 0, line |-> 0,
     is_available |-> chk.is_available,
     min_available |-> chk.min_available,
     total_price |-> chk.total_price]

check(p, R) ==
    \E r \in R :
      LET chk == check_availability(p, r.rooms[1].room_type_id, r.check_in,
                                    r.check_out, r.rooms[1].quantity)
      IN  /\ pc[p] = "idle"
          /\ budget > 0
          /\ budget' = budget - 1
          /\ req' = [req EXCEPT ![p] = r]
          /\ result' = [result EXCEPT ![p] =
                            IF chk.err # "none"
                            THEN Err(chk.err, "check", 0, 0)
                            ELSE Checked(chk)]
          /\ UNCHANGED <<store, lock, dirty, pc, ri, di, acc, cust>>

\* ------------------------------------------------- InventoryGenerator
\* a generation run for a room type over a span of consecutive dates (the
\* list get_future_dates returns)
GenerateRequests ==
    [op : {"generate"},
     room_type_id : RoomTypes \cup {NoRoomType},
     dates : {a..b : a \in (Today - 1)..(Horizon + 1), b \in Today..(Horizon + 1)}
             \ {{}}]

\* a run that takes every date for a date without a record
MissingDatesAll(room_type_id, dates) == dates

\* the dates of the run for which the existence query finds no record
MissingDates(room_type_id, dates) ==
    {d \in dates : <<room_type_id, d>> \notin DOMAIN inv}

\* generate_inventory_for_room_type: generate_inventory and the commit; the
\* outcome is the number of records created
generate_inventory_for_room_type(p, R) ==
    \E r \in R :
      LET created == IF r.room_type_id \notin RoomTypes THEN {}
                     ELSE {<<r.room_type_id, d>> :
                              d \in MissingDates(r.room_type_id, r.dates)}
      IN  /\ pc[p] = "idle"
          /\ budget > 0
          /\ budget' = budget - 1
          /\ req' = [req EXCEPT ![p] = r]
          /\ inv' = [k \in DOMAIN inv \cup created |->
                        IF k \in created
                        THEN [available_rooms |-> total_rooms(k[1]),
                              price |-> base_price(k[1])]
                        ELSE inv[k]]
          /\ result' = [result EXCEPT ![p] =
                            [kind |-> "ok", at |-> "generate", date |-> 0,
                             line |-> 0, created_count |-> Cardinality(created)]]
          /\ UNCHANGED <<bookings, items, customers, lock, dirty, pc, ri, di,
                         acc, cust>>

\* ------------------------------------------- InventoryStore: price changes
\* the price of an inventory record is a snapshot for its date that the
\* property's staff may change at any time, outside the booking engine: an
\* update of one record's price, committed at once; it waits for the row lock
PriceUpdates ==
    [op : {"price"}, room_type_id : {1}, date : Dates, price : 1..MaxPrice]

update_price(p, R) ==
    \E r \in R :
      LET k == <<r.room_type_id, r.date>> IN
      /\ pc[p] = "idle"
      /\ budget > 0
      /\ k \in DOMAIN inv
      /\ lock[k] = 0
      /\ budget' = budget - 1
      /\ req' = [req EXCEPT ![p] = r]
      /\ inv' = [inv EXCEPT ![k].price = r.price]
      /\ result' = [result EXCEPT ![p] = [Ok EXCEPT !.at = "price"]]
      /\ UNCHANGED <<bookings, items, customers, lock, dirty, pc, ri, di,
                     acc, cust>>

\* ------------------------------------------------ BookingLedger: cancel
\* a status check that lets every booking through
AlreadyCancelledNever(b) == FALSE

\* the status check cancel_booking makes on the booking it loaded
AlreadyCancelled(b) == b.status = CANCELLED

\* the optional reason of cancel_booking: None and the empty string both
\* fail the test `if reason:`
NoReason == ""
Reasons == {NoReason, "no show"}

\* cancel_booking up to the scope: load the booking (no lock), status check
cancel_booking_for(p, B, Rs) ==
    \E booking_id \in B, reason \in Rs :
      LET r == [op |-> "cancel", booking_id |-> booking_id, reason |-> reason] IN
      IF booking_id \notin 1..Len(bookings)
      THEN Reject(p, r, Err("BookingNotFound", "validate", 0, 0))
      ELSE IF AlreadyCancelled(bookings[booking_id])
      THEN Reject(p, r, Err("BookingAlreadyCancelled", "validate", 0, 0))
      ELSE /\ Begin(p, [op |-> "cancel", booking_id |-> booking_id,
                        reason |-> reason,
                        old |-> Footprint(bookings[booking_id])], "restore")
           /\ di' = [di EXCEPT ![p] = bookings[booking_id].check_in]
           /\ UNCHANGED <<store, lock, dirty, ri, acc, cust>>

\* cancel_booking called without a reason
cancel_booking(p, B) == cancel_booking_for(p, B, {NoReason})

\* the notes of a booking cancelled with `reason`: a line is appended when
\* a reason was given
CancelNotes(notes, reason) ==
    IF reason # NoReason
    THEN Append(notes, <<"Cancellation reason", reason>>)
    ELSE notes

\* cancel_booking: status update, flush and commit
cancel_booking_commit(p) ==
    /\ pc[p] = "commit"
    /\ req[p].op = "cancel"
    /\ inv' = CommitInv(p)
    /\ bookings' = [bookings EXCEPT ![req[p].booking_id] =
           [@ EXCEPT !.status = CANCELLED,
                     !.notes = CancelNotes(@, req[p].reason)]]
    /\ UNCHANGED <<items, customers>>
    /\ Finish(p)

\* ------------------------------------------- router: PUT /bookings/{id}
\* update_booking: setattr of the supplied fields (amount_paid, status,
\* notes) on the loaded booking and commit; no inventory call
update_booking(p, B, S) ==
    \E booking_id \in B, status \in S :
      LET r == [op |-> "update", booking_id |-> booking_id, status |-> status] IN
      IF booking_id \notin 1..Len(bookings)
      THEN Reject(p, r, Err("BookingNotFound", "validate", 0, 0))
      ELSE /\ pc[p] = "idle"
           /\ budget > 0
           /\ budget' = budget - 1
           /\ req' = [req EXCEPT ![p] = r]
           /\ result' = [result EXCEPT ![p] = Ok]
           /\ bookings' = [bookings EXCEPT ![booking_id].status = status]
           /\ UNCHANGED <<inv, items, customers, lock, dirty, pc, ri, di, acc, cust>>

\* ------------------------------------------------ BookingLedger: modify
\* modify_booking is imported by the router from booking_service but is not
\* part of the sources at hand; it is modelled from the design document and
\* the docstring of modify_booking_endpoint.
None == 0    \* an optional parameter that was not supplied

ModifyRequests ==
    [booking_id : 1..MaxBookings,
     new_check_in : {None},
     new_check_out : {None, Horizon},
     new_room_type_id : {None} \cup RoomTypes,
     new_num_rooms : {None, MaxQuantity}]

Default(new, old) == IF new = None THEN old ELSE new

\* load the booking, reject a missing, cancelled or past one, then open the
\* scope; every parameter not supplied defaults to the booking's value
modify_booking(p, R) ==
    \E m \in R :
      LET r == [op |-> "modify", booking_id |-> m.booking_id] IN
      IF m.booking_id \notin 1..Len(bookings)
      THEN Reject(p, r, Err("BookingNotFound", "validate", 0, 0))
      ELSE LET b == bookings[m.booking_id] IN
           IF b.status = CANCELLED \/ b.check_in < Today
           THEN Reject(p, r, Err("BookingNotModifiable", "validate", 0, 0))
           ELSE /\ Begin(p, [op |-> "modify", booking_id |-> m.booking_id,
                             old |-> Footprint(b),
                             check_in |-> Default(m.new_check_in, b.check_in),
                             check_out |-> Default(m.new_check_out, b.check_out),
                             rooms |-> <<[room_type_id |-> Default(m.new_room_type_id, b.room_type_id),
                                          quantity |-> Default(m.new_num_rooms, b.num_rooms)]>>],
                         "restore")
                /\ di' = [di EXCEPT ![p] = b.check_in]
                /\ UNCHANGED <<store, lock, dirty, ri, acc, cust>>

\* step (b), first half: the availability of the new footprint is checked
\* inside the scope, after the old footprint was restored
modify_recheck(p) ==
    /\ pc[p] = "recheck"
    /\ LET room_req == req[p].rooms[1]
           chk == check_availability(p, room_req.room_type_id, req[p].check_in,
                                     req[p].check_out, room_req.quantity)
       IN  IF room_req.room_type_id \notin RoomTypes
           THEN Rollback(p, Err("RoomTypeNotFound", "recheck", 0, 0))
           ELSE IF chk.err # "none"
           THEN Rollback(p, Err(chk.err, "recheck", 0, 0))
           ELSE IF ~chk.is_available
           THEN Rollback(p, Err("InventoryUnavailable", "recheck", 0, 0))
           ELSE /\ pc' = [pc EXCEPT ![p] = "reserve"]
                /\ ri' = [ri EXCEPT ![p] = 1]
                /\ di' = [di EXCEPT ![p] = req[p].check_in]
                /\ UNCHANGED <<store, lock, dirty, req, acc, cust, result, budget>>

\* steps (c)-(d) and the commit: the booking's fields are replaced in place
modify_booking_commit(p) ==
    /\ pc[p] = "commit"
    /\ req[p].op = "modify"
    /\ inv' = CommitInv(p)
    /\ bookings' = [bookings EXCEPT ![req[p].booking_id] =
           [@ EXCEPT !.room_type_id = req[p].rooms[1].room_type_id,
                     !.check_in = req[p].check_in,
                     !.check_out = req[p].check_out,
                     !.num_rooms = req[p].rooms[1].quantity,
                     !.total_amount = acc[p].total]]
    /\ UNCHANGED <<items, customers>>
    /\ Finish(p)

\* -------------------------------------------------------- specifications
BookingIds == 1..MaxBookings
Statuses == {CONFIRMED, CANCELLED}

\* the requests of Spec: whole-horizon stays
LedgerCreates == {r \in CreateRequests : r.check_in = Today /\ r.check_out = Horizon + 1}
LedgerMultis == {r \in MultiRequests : \A i \in 1..Len(r.rooms) : r.rooms[i].quantity = 1}

LedgerModifies == {m \in ModifyRequests : m.new_check_out = None /\ m.new_num_rooms = None}

\* every exposed operation, NumProcs concurrent sessions
Next ==
    \E p \in Procs :
        \/ create_booking(p, LedgerCreates)
        \/ create_multi_room_booking(p, LedgerMultis)
        \/ multi_precheck(p)
        \/ reserve_inventory(p)
        \/ get_or_create_customer(p)
        \/ create_booking_commit(p)
        \/ create_multi_room_booking_commit(p)
        \/ cancel_booking(p, BookingIds)
        \/ restore_inventory(p)
        \/ cancel_booking_commit(p)
        \/ update_booking(p, BookingIds, Statuses)
        \/ modify_booking(p, LedgerModifies)
        \/ modify_recheck(p)
        \/ modify_booking_commit(p)

Spec == Init /\ [][Next]_vars

\* one session: createBooking, createMultiRoomBooking and cancelBooking
\* calls one after the other
NextSolo ==
    \E p \in {1} :
        \/ create_booking(p, LedgerCreates)
        \/ create_multi_room_booking(p, LedgerMultis)
        \/ multi_precheck(p)
        \/ reserve_inventory(p)
        \/ get_or_create_customer(p)
        \/ create_booking_commit(p)
        \/ create_multi_room_booking_commit(p)
        \/ cancel_booking(p, BookingIds)
        \/ restore_inventory(p)
        \/ cancel_booking_commit(p)

InitSolo ==
    /\ Fresh
    /\ budget = MaxSoloOps

SpecSolo == InitSolo /\ [][NextSolo]_vars

\* concurrent reservations only: createBooking and createMultiRoomBooking
NextReserve ==
    \E p \in Procs :
        \/ create_booking(p, CreateRequests)
        \/ create_multi_room_booking(p, MultiRequests)
        \/ multi_precheck(p)
        \/ reserve_inventory(p)
        \/ get_or_create_customer(p)
        \/ create_booking_commit(p)
        \/ create_multi_room_booking_commit(p)

InitReserve ==
    /\ Fresh
    /\ budget = MaxOps

SpecReserve == InitReserve /\ [][NextReserve]_vars

\* createBooking and cancelBooking only
NextCancel ==
    \E p \in Procs :
        \/ create_booking(p, CreateRequests)
        \/ reserve_inventory(p)
        \/ get_or_create_customer(p)
        \/ create_booking_commit(p)
        \/ cancel_booking(p, BookingIds)
        \/ restore_inventory(p)
        \/ cancel_booking_commit(p)

InitCancel ==
    /\ Fresh
    /\ budget = MaxCancelOps

SpecCancel == InitCancel /\ [][NextCancel]_vars

\* requests that validation has to turn away among those it lets through:
\* a check-in in the past, an empty or reversed range, a range past the
\* horizon, a room type absent from the catalog, an empty room list
ValidateCreates ==
    [op : {"create"},
     check_in : {Today - 1, Today},
     check_out : {Today, Horizon + 1, Horizon + 2},
     rooms : {<<[room_type_id |-> r, quantity |-> MaxQuantity]>> :
                 r \in RoomTypes \cup {NoRoomType}},
     email : Emails]

ValidateMultis ==
    [op : {"multi"},
     check_in : {Today - 1, Today},
     check_out : {Horizon + 1, Horizon + 2},
     rooms : {<<>>} \cup
             {<<[room_type_id |-> r1, quantity |-> MaxQuantity],
                [room_type_id |-> r2, quantity |-> MaxQuantity]>> :
                 r1 \in {1}, r2 \in RoomTypes \cup {NoRoomType}},
     email : Emails]

ValidateChecks ==
    {r \in CheckRequests :
        /\ r.check_in \in {Today - 1, Today}
        /\ r.check_out \in {Today, Horizon + 1, Horizon + 2}
        /\ r.rooms[1].quantity = MaxQuantity}

\* direct reserve_inventory calls, within the horizon and past it
ValidateScopes ==
    {r \in ScopeRequests :
        /\ r.reserve
        /\ r.restores = 1
        /\ r.check_out \in {Horizon + 1, Horizon + 2}
        /\ r.rooms[1].quantity = 1}

\* check, createBooking, createMultiRoomBooking and reserve_inventory with
\* requests of every kind
NextValidate ==
    \E p \in Procs :
        \/ check(p, ValidateChecks)
        \/ scope_begin(p, ValidateScopes)
        \/ restore_inventory(p)
        \/ scope_commit(p)
        \/ create_booking(p, ValidateCreates)
        \/ create_multi_room_booking(p, ValidateMultis)
        \/ multi_precheck(p)
        \/ reserve_inventory(p)
        \/ get_or_create_customer(p)
        \/ create_booking_commit(p)
        \/ create_multi_room_booking_commit(p)

InitValidate ==
    /\ Fresh
    /\ budget = MaxValidateOps

SpecValidate == InitValidate /\ [][NextValidate]_vars

\* the store on the day after a one-room booking of room type 1 was made for
\* last night and tonight: its check-in is in the past by now
InitAmend ==
    /\ inv = [k \in RoomTypes \X ((Today - 1)..Horizon) |->
                 [available_rooms |->
                      IF k[1] = 1 /\ k[2] \in {Today - 1, Today}
                      THEN total_rooms(k[1]) - 1 ELSE total_rooms(k[1]),
                  price |-> base_price(k[1])]]
    /\ bookings = <<[customer_id |-> 1, room_type_id |-> 1,
                     check_in |-> Today - 1, check_out |-> Today + 1,
                     num_rooms |-> 1, total_amount |-> 2 * base_price(1),
                     status |-> CONFIRMED, notes |-> <<>>]>>
    /\ items = {}
    /\ customers = <<"a@x">>
    /\ InitLocals
    /\ budget = MaxAmendOps

\* one session: createBooking, cancelBooking and modifyBooking calls one
\* after the other
NextAmend ==
    \E p \in {1} :
        \/ create_booking(p, LedgerCreates)
        \/ reserve_inventory(p)
        \/ get_or_create_customer(p)
        \/ create_booking_commit(p)
        \/ cancel_booking(p, BookingIds)
        \/ restore_inventory(p)
        \/ cancel_booking_commit(p)
        \/ modify_booking(p, ModifyRequests)
        \/ modify_recheck(p)
        \/ modify_booking_commit(p)

SpecAmend == InitAmend /\ [][NextAmend]_vars

\* calls of reserve_inventory and restore_inventory in scopes of their own
NextScope ==
    \E p \in Procs :
        \/ scope_begin(p, ScopeRequests)
        \/ reserve_inventory(p)
        \/ restore_inventory(p)
        \/ scope_commit(p)

InitScope ==
    /\ Fresh
    /\ budget = MaxScopeOps

SpecScope == InitScope /\ [][NextScope]_vars

\* createBooking and modifyBooking only
NextModify ==
    \E p \in Procs :
        \/ create_booking(p, LedgerCreates)
        \/ reserve_inventory(p)
        \/ get_or_create_customer(p)
        \/ create_booking_commit(p)
        \/ modify_booking(p, ModifyRequests)
        \/ restore_inventory(p)
        \/ modify_recheck(p)
        \/ modify_booking_commit(p)

InitModify ==
    /\ Fresh
    /\ budget = MaxModifyOps

SpecModify == InitModify /\ [][NextModify]_vars

\* createBooking and cancelBooking, with and without a reason, of stays of
\* any length in room type 1
UndoCreates == {r \in CreateRequests : r.rooms[1].room_type_id = 1}

NextUndo ==
    \E p \in Procs :
        \/ create_booking(p, UndoCreates)
        \/ reserve_inventory(p)
        \/ get_or_create_customer(p)
        \/ create_booking_commit(p)
        \/ cancel_booking_for(p, BookingIds, Reasons)
        \/ restore_inventory(p)
        \/ cancel_booking_commit(p)

InitUndo ==
    /\ Fresh
    /\ budget = MaxUndoOps

SpecUndo == InitUndo /\ [][NextUndo]_vars

\* generation runs, one after the other, among createBooking calls
NextGenerate ==
    \E p \in Procs :
        \/ generate_inventory_for_room_type(p, GenerateRequests)
        \/ create_booking(p, LedgerCreates)
        \/ reserve_inventory(p)
        \/ get_or_create_customer(p)
        \/ create_booking_commit(p)

InitGenerate ==
    /\ Fresh
    /\ budget = MaxGenerateOps

SpecGenerate == InitGenerate /\ [][NextGenerate]_vars

\* bookings of room type 1 for the whole horizon, alone or together with
\* room type 2, while the prices of its records change
PriceCreates == {r \in LedgerCreates : r.rooms[1].room_type_id = 1}
PriceMultis ==
    {r \in LedgerMultis : r.rooms[1].room_type_id = 1 /\ r.rooms[2].room_type_id = 2}

NextPrice ==
    \E p \in Procs :
        \/ update_price(p, PriceUpdates)
        \/ create_booking(p, PriceCreates)
        \/ create_multi_room_booking(p, PriceMultis)
        \/ multi_precheck(p)
        \/ reserve_inventory(p)
        \/ get_or_create_customer(p)
        \/ create_booking_commit(p)
        \/ create_multi_room_booking_commit(p)

InitPrice ==
    /\ Fresh
    /\ budget = MaxPriceOps

SpecPrice == InitPrice /\ [][NextPrice]_vars

\* check calls on inventory in any state: the records of room type 1 hold
\* any count from 0 to total_rooms and any price from 1 to MaxPrice
InitCheck ==
    /\ \E f \in [Dates -> [available_rooms : 0..TotalRooms, price : 1..MaxPrice]] :
          inv = [k \in RoomTypes \X Dates |->
                    IF k[1] = 1 THEN f[k[2]] ELSE generate_inventory[k]]
    /\ bookings = <<>>
    /\ items = {}
    /\ customers = <<>>
    /\ InitLocals
    /\ budget = MaxCheckOps

NextCheck ==
    \E p \in Procs :
        check(p, CheckRequests)

SpecCheck == InitCheck /\ [][NextCheck]_vars

\* ------------------------------------------------------------------ claims
Done(p) == pc[p] = "idle" /\ result[p].kind # "none"
Failed(p) == Done(p) /\ result[p].kind # "ok"

\* the dates a stay [check_in, check_out) occupies
Nights(r) == get_date_list(r.check_in, r.check_out)

RECURSIVE SumQuantity(_)
SumQuantity(S) ==
    IF S = {} THEN 0
    ELSE LET x == CHOOSE y \in S : TRUE IN x.quantity + SumQuantity(S \ {x})

\* rooms of room type rt that booking id b holds: its items when it has
\* any (multi-room booking), its own room type and num_rooms otherwise
QuantityOf(b, rt) ==
    LET its == {it \in items : it.booking_id = b} IN
    IF its # {}
    THEN SumQuantity({it \in its : it.room_type_id = rt})
    ELSE IF bookings[b].room_type_id = rt THEN bookings[b].num_rooms ELSE 0

RECURSIVE SumReserved(_, _)
SumReserved(B, rt) ==
    IF B = {} THEN 0
    ELSE LET b == CHOOSE y \in B : TRUE IN QuantityOf(b, rt) + SumReserved(B \ {b}, rt)

\* rooms of key k = (room type, date) held by CONFIRMED bookings
Reserved(k) ==
    SumReserved({b \in 1..Len(bookings) :
                    /\ bookings[b].status = CONFIRMED
                    /\ k[2] \in Nights(bookings[b])}, k[1])

\* C1: while createBooking and createMultiRoomBooking calls run concurrently,
\* available_rooms of no inventory record is ever negative, neither in the
\* committed row nor in the row as changed by a session that has it locked.
C1_NeverNegative ==
    \A k \in DOMAIN inv :
        /\ inv[k].available_rooms >= 0
        /\ \A p \in Procs : Avail(p, k) >= 0

\* two sessions contended for a sold-out record: one was turned away by the
\* re-check under the lock and the record stands at 0
C1_Witness ==
    \E p \in Procs, k \in DOMAIN inv :
        /\ Failed(p)
        /\ result[p] = Err("InventoryUnavailable", "reserve", k[2], result[p].line)
        /\ req[p].rooms[result[p].line].room_type_id = k[1]
        /\ inv[k].available_rooms = 0

\* both createBooking calls got past the advisory check although the record
\* of some common date cannot serve both
Contended(p, q) ==
    /\ Done(p) /\ Done(q)
    /\ req[p].op = "create" /\ req[q].op = "create"
    /\ result[p].at \notin {"validate", "precheck"}
    /\ result[q].at \notin {"validate", "precheck"}
    /\ req[p].rooms[1].room_type_id = req[q].rooms[1].room_type_id
    /\ Nights(req[p]) \cap Nights(req[q]) # {}
    /\ req[p].rooms[1].quantity + req[q].rooms[1].quantity
          > total_rooms(req[p].rooms[1].room_type_id)

\* C4: of two concurrent createBooking calls that both passed the advisory
\* check while a common record suffices for one of them only, exactly one
\* commits; the other fails with InventoryUnavailable from the re-check
\* under the lock and leaves no deduction: every record holds total_rooms
\* minus the rooms of the CONFIRMED bookings.
C4_Serialized ==
    \A p \in Procs : \A q \in Procs \ {p} :
        Contended(p, q) =>
            /\ (result[p].kind = "ok") # (result[q].kind = "ok")
            /\ \A s \in {p, q} :
                  result[s].kind # "ok" =>
                     /\ result[s].kind = "InventoryUnavailable"
                     /\ result[s].at = "reserve"
                     /\ dirty[s] = NoDirty
            /\ \A k \in DOMAIN inv : lock[k] \notin {p, q}
            /\ \A k \in DOMAIN inv :
                  inv[k].available_rooms = total_rooms(k[1]) - Reserved(k)

C4_Witness ==
    \E p \in Procs : \E q \in Procs \ {p} :
        /\ Contended(p, q)
        /\ result[p].kind = "ok"
        /\ result[q].kind = "InventoryUnavailable"
        /\ Len(bookings) = 1

\* the step in which a call of operation op by session p fails inside its
\* scope (after it was opened, before the commit)
FailsInScope(p, op) ==
    /\ req[p].op = op
    /\ pc[p] \in {"restore", "recheck", "reserve", "customer"}
    /\ pc'[p] = "idle"
    /\ result'[p].kind # "ok"

\* session p has nothing uncommitted and holds no row lock
Clean(p) == dirty[p] = NoDirty /\ \A k \in Keys : lock[k] # p

\* C5: when createMultiRoomBooking fails while reserving a room type, the
\* deductions made for the room types before it are rolled back: the failing
\* step leaves every inventory record, the bookings and the booking items as
\* they were, and the session keeps no uncommitted deduction and no lock.
C5_MultiRollback ==
    [][\A p \in Procs :
          FailsInScope(p, "multi") =>
              /\ inv' = inv
              /\ bookings' = bookings
              /\ items' = items
              /\ Clean(p)']_vars

\* a multi-room booking failed on its second room request after the first
\* one had been deducted; nothing of it is left (the only bookings are those
\* that took the rooms of the second room type)
C5_Witness ==
    \E p \in Procs :
        /\ Failed(p)
        /\ req[p].op = "multi"
        /\ result[p].kind = "InventoryUnavailable"
        /\ result[p].at = "reserve"
        /\ result[p].line = 2
        /\ req[p].rooms[1].room_type_id # req[p].rooms[2].room_type_id
        /\ items = {}
        /\ \A b \in 1..Len(bookings) : bookings[b].room_type_id = req[p].rooms[2].room_type_id
        /\ \A k \in DOMAIN inv :
              k[1] = req[p].rooms[1].room_type_id =>
                 inv[k].available_rooms = total_rooms(k[1])

\* C7: when reserve fails on a date of the range during createBooking, the
\* deductions already applied to the earlier dates are discarded: the failing
\* step changes no committed row and the session's own deductions are gone,
\* so every date of the range reads as it would without the call.
C7_ReserveRollback ==
    [][\A p \in Procs :
          FailsInScope(p, "create") =>
              /\ store' = store
              /\ \A k \in DOMAIN inv : Avail(p, k)' = inv[k].available_rooms
              /\ \A k \in Keys : lock'[k] # p]_vars

\* createBooking failed on a later date of its range, after the first date
\* had been deducted
C7_Witness ==
    \E p \in Procs :
        /\ Failed(p)
        /\ req[p].op = "create"
        /\ result[p].kind = "InventoryUnavailable"
        /\ result[p].at = "reserve"
        /\ result[p].date > req[p].check_in
        /\ Clean(p)

\* C2: after any sequence of createBooking, createMultiRoomBooking,
\* cancelBooking and modifyBooking calls on freshly generated inventory,
\* available_rooms of every record is at most total_rooms of its room type.
C2_AtMostTotal ==
    \A k \in DOMAIN inv : inv[k].available_rooms <= total_rooms(k[1])

\* C3: for every (room type, date) the rooms held by CONFIRMED bookings
\* (single-room bookings and multi-room booking items) covering that date
\* never exceed total_rooms of the room type.
C3_NoOverbooking ==
    \A k \in DOMAIN inv : Reserved(k) <= total_rooms(k[1])

\* C6: when modifyBooking fails while re-checking or reserving the new
\* footprint, the restore of the old footprint is rolled back with it: the
\* failing step leaves the booking rows and every inventory record as they
\* were before the call, and nothing of the restore stays behind.
C6_ModifyRollback ==
    [][\A p \in Procs :
          FailsInScope(p, "modify") =>
              /\ bookings' = bookings
              /\ inv' = inv
              /\ dirty'[p] = NoDirty
              /\ \A k \in Keys : lock'[k] # p]_vars

\* modifyBooking to another room type failed with InventoryUnavailable after
\* the old footprint had been restored; the booking and the records of its
\* room type are as createBooking left them
C6_Witness ==
    \E p \in Procs :
        /\ Failed(p)
        /\ req[p].op = "modify"
        /\ result[p].kind = "InventoryUnavailable"
        /\ result[p].at \in {"recheck", "reserve"}
        /\ req[p].rooms[1].room_type_id # req[p].old.room_type_id
        /\ Footprint(bookings[req[p].booking_id]) = req[p].old
        /\ bookings[req[p].booking_id].status = CONFIRMED
        /\ \A d \in Nights(req[p].old) :
              inv[<<req[p].old.room_type_id, d>>].available_rooms
                  <= total_rooms(req[p].old.room_type_id) - req[p].old.num_rooms

\* C8: of two cancelBooking calls on the same existing booking exactly one
\* succeeds and the other fails with BookingAlreadyCancelled, so that the
\* footprint is restored once: every record holds total_rooms minus the rooms
\* of the CONFIRMED bookings.
C8_RestoredOnce ==
    \A p \in Procs : \A q \in Procs \ {p} :
        ( /\ Done(p) /\ Done(q)
          /\ req[p].op = "cancel" /\ req[q].op = "cancel"
          /\ req[p].booking_id = req[q].booking_id
          /\ result[p].kind # "BookingNotFound"
          /\ result[q].kind # "BookingNotFound" )
        => /\ (result[p].kind = "ok") # (result[q].kind = "ok")
           /\ "BookingAlreadyCancelled" \in {result[p].kind, result[q].kind}
           /\ \A k \in DOMAIN inv :
                 inv[k].available_rooms = total_rooms(k[1]) - Reserved(k)

\* C9: a booking whose status is CANCELLED never has another status later.
C9_CancelledIsFinal ==
    [][\A b \in 1..Len(bookings) :
          bookings[b].status = CANCELLED => bookings'[b].status = CANCELLED]_vars

\* C10: every step that moves a booking from CONFIRMED to CANCELLED gives the
\* rooms the booking holds back to the records of its stay, in the same step.
C10_CancelRestores ==
    [][\A b \in 1..Len(bookings) :
          (bookings[b].status = CONFIRMED /\ bookings'[b].status = CANCELLED) =>
              \A k \in DOMAIN inv :
                  k[2] \in Nights(bookings[b]) =>
                      inv'[k].available_rooms
                          = inv[k].available_rooms + QuantityOf(b, k[1])]_vars

\* the step is one of session p
Moves(p) ==
    <<pc[p], req[p], result[p], ri[p], di[p]>>' # <<pc[p], req[p], result[p], ri[p], di[p]>>

\* the step in which session p is handed a call of operation op
Calls(p, op) ==
    /\ pc[p] = "idle"
    /\ budget' < budget
    /\ Moves(p)
    /\ req'[p].op = op

\* C11: cancelBooking called on a booking whose status is CANCELLED fails with
\* BookingAlreadyCancelled in that very step, and the step leaves every
\* inventory record, the booking, every lock and every uncommitted change as
\* they were.
C11_AlreadyCancelled ==
    [][\A p \in Procs : \A b \in 1..Len(bookings) :
          ( /\ Calls(p, "cancel")
            /\ req'[p].booking_id = b
            /\ bookings[b].status = CANCELLED )
          => /\ result'[p].kind = "BookingAlreadyCancelled"
             /\ pc'[p] = "idle"
             /\ store' = store
             /\ lock' = lock
             /\ dirty' = dirty]_vars

\* a second cancelBooking of a cancelled booking was turned away; the records
\* of its stay hold what the first cancelBooking restored
C11_Witness ==
    \E p \in Procs :
        /\ Failed(p)
        /\ req[p].op = "cancel"
        /\ result[p].kind = "BookingAlreadyCancelled"
        /\ bookings[req[p].booking_id].status = CANCELLED
        /\ \A k \in DOMAIN inv : inv[k].available_rooms = total_rooms(k[1]) - Reserved(k)

\* C12: restore_inventory reaching a date of its range that has no inventory
\* record fails with InventoryRestoreError and aborts the scope: the session
\* ends with the error, nothing is committed and none of its increments of
\* the other dates is kept.
C12_RestoreMissing ==
    [][\A p \in Procs :
          ( /\ pc[p] = "restore"
            /\ Moves(p)
            /\ <<req[p].old.room_type_id, di[p]>> \notin DOMAIN inv )
          => /\ pc'[p] = "idle"
             /\ result'[p].kind = "InventoryRestoreError"
             /\ store' = store
             /\ Clean(p)']_vars

\* the step in which session p commits a scope that called reserve_inventory
\* once and restore_inventory n times
CommitsRoundTrip(p, n) ==
    /\ pc[p] = "commit"
    /\ req[p].op = "scope"
    /\ req[p].reserve
    /\ req[p].restores = n
    /\ Moves(p)

\* the largest quantity a single request can get on fresh inventory
Most == Min({MaxQuantity, TotalRooms})

\* C14: in a scope that made a successful reserve(rt, d1, d2, q) and then one
\* restore(rt, d1, d2, q), the session reads every record as before the
\* reserve, and its commit leaves every inventory record unchanged.
C14_RoundTrip ==
    [][\A p \in Procs :
          CommitsRoundTrip(p, 1) =>
              /\ dirty[p] = NoDirty
              /\ inv' = inv
              /\ result'[p].kind = "ok"]_vars

\* a round trip of as many rooms as a request can get over the whole horizon committed on
\* freshly generated inventory
C14_Witness ==
    \E p \in Procs :
        /\ Done(p)
        /\ result[p].kind = "ok"
        /\ req[p].op = "scope"
        /\ req[p].reserve
        /\ req[p].restores = 1
        /\ req[p].rooms[1].quantity = Most
        /\ req[p].check_out = Horizon + 1
        /\ budget = MaxScopeOps - 1
        /\ inv = generate_inventory

\* C15: a scope that made a successful reserve(rt, d1, d2, q) and then called
\* restore(rt, d1, d2, q) more than once is not rejected, and its commit
\* leaves every record of rt in [d1, d2) q rooms above its value before the
\* reserve for each restore beyond the first, and every other record as it
\* was.
C15_RestoreOverCredits ==
    [][\A p \in Procs : \A n \in 2..(MaxRestores + 1) :
          CommitsRoundTrip(p, n) =>
              /\ result'[p].kind = "ok"
              /\ \A k \in DOMAIN inv :
                    inv'[k].available_rooms =
                        IF k[1] = req[p].old.room_type_id /\ k[2] \in Nights(req[p].old)
                        THEN inv[k].available_rooms + (n - 1) * req[p].old.num_rooms
                        ELSE inv[k].available_rooms]_vars

\* after one reserve and two restores on freshly generated inventory the
\* records of the range stand q above total_rooms
C15_Witness ==
    \E p \in Procs :
        /\ Done(p)
        /\ result[p].kind = "ok"
        /\ req[p].op = "scope"
        /\ req[p].reserve
        /\ req[p].restores = 2
        /\ budget = MaxScopeOps - 1
        /\ \A d \in Nights(req[p].old) :
              inv[<<req[p].old.room_type_id, d>>].available_rooms
                  = total_rooms(req[p].old.room_type_id) + req[p].old.num_rooms

\* the inventory row session p is about to lock, if it is at a locking step
Wanted(p) ==
    IF pc[p] = "reserve" THEN {<<req[p].rooms[ri[p]].room_type_id, di[p]>>}
    ELSE IF pc[p] = "restore" THEN {<<req[p].old.room_type_id, di[p]>>}
    ELSE {}

\* session p waits for a row lock that session q holds
WaitsFor(p, q) == \E k \in Wanted(p) \cap DOMAIN inv : lock[k] = q

\* the rows the reserve and restore calls of request r lock
LockRows(r) ==
    (IF "rooms" \in DOMAIN r
     THEN {<<r.rooms[i].room_type_id, d>> : i \in 1..Len(r.rooms), d \in Nights(r)}
     ELSE {})
    \cup
    (IF "old" \in DOMAIN r
     THEN {<<r.old.room_type_id, d>> : d \in Nights(r.old)}
     ELSE {})

\* C13: two concurrent operations that lock records of the same room type
\* over overlapping date ranges never wait for each other's row locks at the
\* same time (a lock-wait cycle, from which neither can commit or roll back).
C13_NoLockWaitCycle ==
    \A p \in Procs : \A q \in Procs \ {p} :
        ( /\ pc[p] # "idle" /\ pc[q] # "idle"
          /\ LockRows(req[p]) \cap LockRows(req[q]) # {} )
        => ~(WaitsFor(p, q) /\ WaitsFor(q, p))

\* the deductions a createBooking request r has made once the dates of its
\* range up to and including date d are done
DeductedUpTo(r, d) ==
    [k \in Keys |->
        IF k[1] = r.rooms[1].room_type_id /\ k[2] \in Nights(r) /\ k[2] <= d
        THEN 0 - r.rooms[1].quantity
        ELSE 0]

\* C16: createBooking(rt, check_in, check_out, q) deducts date by date in
\* ascending order (after the step for date d exactly the dates of the range
\* up to d are deducted by q), and its commit takes exactly q from every
\* record of rt in [check_in, check_out), changes no other record and appends
\* one CONFIRMED booking holding the request's footprint.
C16_CreateEffect ==
    [][\A p \in Procs :
          /\ ( /\ pc[p] = "reserve" /\ req[p].op = "create"
               /\ Moves(p) /\ pc'[p] # "idle" )
             => /\ dirty'[p] = DeductedUpTo(req[p], di[p])
                /\ \A k \in Keys : lock'[k] = p <=> dirty'[p][k] # 0
          /\ ( /\ pc[p] = "commit" /\ req[p].op = "create" /\ Moves(p) )
             => /\ result'[p].kind = "ok"
                /\ \A k \in DOMAIN inv :
                      inv'[k].available_rooms =
                          inv[k].available_rooms
                              + DeductedUpTo(req[p], req[p].check_out)[k]
                /\ Len(bookings') = Len(bookings) + 1
                /\ SubSeq(bookings', 1, Len(bookings)) = bookings
                /\ bookings'[Len(bookings')].status = CONFIRMED
                /\ Footprint(bookings'[Len(bookings')]) =
                      [room_type_id |-> req[p].rooms[1].room_type_id,
                       check_in |-> req[p].check_in,
                       check_out |-> req[p].check_out,
                       num_rooms |-> req[p].rooms[1].quantity]
                /\ items' = items]_vars

\* the first createBooking took as many rooms as it could for the stay
\* [Today, Horizon): the nights of the stay are down by that many, the check-out
\* date and the other room types are untouched
C16_Witness ==
    \E p \in Procs :
        /\ Done(p)
        /\ result[p].kind = "ok"
        /\ req[p].op = "create"
        /\ req[p].check_in = Today
        /\ req[p].check_out = Horizon
        /\ req[p].rooms[1].quantity = Most
        /\ Len(bookings) = 1
        /\ bookings[1].status = CONFIRMED
        /\ \A k \in DOMAIN inv :
              inv[k].available_rooms =
                  IF k[1] = req[p].rooms[1].room_type_id /\ k[2] < Horizon
                  THEN total_rooms(k[1]) - Most
                  ELSE total_rooms(k[1])

\* request r names a room type of the catalog and a valid range whose dates
\* all have an inventory record
WellFormed(r) ==
    /\ r.check_in >= Today
    /\ r.check_out > r.check_in
    /\ r.rooms[1].room_type_id \in RoomTypes
    /\ \A d \in Nights(r) : <<r.rooms[1].room_type_id, d>> \in DOMAIN inv

\* C17: a createBooking called while the committed record of some date of its
\* range holds fewer rooms than requested fails at once with
\* InventoryUnavailable, and one that finds fewer rooms than requested under
\* the row lock (the rooms were taken while it was on its way) fails with
\* InventoryUnavailable too; either way no booking is created and no
\* inventory record changes.
C17_Unavailable ==
    [][\A p \in Procs :
          /\ ( /\ Calls(p, "create")
               /\ WellFormed(req'[p])
               /\ \E d \in Nights(req'[p]) :
                     inv[<<req'[p].rooms[1].room_type_id, d>>].available_rooms
                         < req'[p].rooms[1].quantity )
             => /\ result'[p].kind = "InventoryUnavailable"
                /\ pc'[p] = "idle"
                /\ store' = store
                /\ lock' = lock
                /\ dirty' = dirty
          /\ ( /\ pc[p] = "reserve" /\ req[p].op = "create" /\ Moves(p)
               /\ <<req[p].rooms[1].room_type_id, di[p]>> \in DOMAIN inv
               /\ Avail(p, <<req[p].rooms[1].room_type_id, di[p]>>)
                     < req[p].rooms[1].quantity )
             => /\ result'[p].kind = "InventoryUnavailable"
                /\ pc'[p] = "idle"
                /\ store' = store
                /\ Clean(p)']_vars

\* after a sell-out (a record of the range stands at 0) the next
\* createBooking was turned away and the ledger holds the one booking that
\* took the rooms
C17_Witness ==
    \E p \in Procs :
        /\ Failed(p)
        /\ req[p].op = "create"
        /\ result[p].kind = "InventoryUnavailable"
        /\ result[p].at = "precheck"
        /\ \E d \in Nights(req[p]) :
              inv[<<req[p].rooms[1].room_type_id, d>>].available_rooms = 0
        /\ Len(bookings) = 1
        /\ \A k \in DOMAIN inv : inv[k].available_rooms = total_rooms(k[1]) - Reserved(k)

\* C18: whatever raises inside the open scope of a call, the failure of the
\* customer lookup after a successful reserve included, commits nothing: the
\* failing step leaves the inventory records, customers, bookings and booking
\* items as they were and the session keeps no uncommitted change and no lock.
C18_FullRollback ==
    [][\A p \in Procs :
          ( /\ pc[p] \in {"restore", "recheck", "reserve", "customer"}
            /\ pc'[p] = "idle"
            /\ result'[p].kind # "ok" )
          => /\ store' = store
             /\ Clean(p)']_vars

\* a booking call had reserved its whole range when the customer lookup
\* raised; the records hold only the rooms of the committed bookings
C18_Witness ==
    \E p \in Procs :
        /\ Failed(p)
        /\ req[p].op \in {"create", "multi"}
        /\ result[p].at = "customer"
        /\ Clean(p)
        /\ \A b \in 1..Len(bookings) : bookings[b].status = CONFIRMED
        /\ \A k \in DOMAIN inv : inv[k].available_rooms = total_rooms(k[1]) - Reserved(k)

\* the advisory check turns room request i of request r away on the committed
\* rows: unknown room type, a date without a record, or too few rooms
Doomed(r, i) ==
    \/ r.rooms[i].room_type_id \notin RoomTypes
    \/ \E d \in Nights(r) :
          \/ <<r.rooms[i].room_type_id, d>> \notin DOMAIN inv
          \/ inv[<<r.rooms[i].room_type_id, d>>].available_rooms < r.rooms[i].quantity

BadDates(r) == r.check_out <= r.check_in \/ r.check_in < Today

\* the step of session p ends its call with an error of the validation
\* steps and changes neither a row, nor a lock, nor an uncommitted change
TurnedAway(p) ==
    /\ pc'[p] = "idle"
    /\ result'[p].kind # "ok"
    /\ result'[p].at \in {"validate", "precheck"}
    /\ store' = store
    /\ lock' = lock
    /\ dirty' = dirty

\* C19: a createBooking or createMultiRoomBooking that validation has to turn
\* away (bad date range, empty room list, unknown room type, advisory check
\* failing for some requested room type) fails in its validation steps: it
\* holds no lock and no uncommitted change before, and the failing step
\* changes no row, no lock and no uncommitted change of any session.
C19_ValidationFirst ==
    [][\A p \in Procs :
          /\ ( /\ Calls(p, "create")
               /\ (BadDates(req'[p]) \/ Doomed(req'[p], 1)) )
             => TurnedAway(p)
          /\ ( /\ Calls(p, "multi")
               /\ (BadDates(req'[p]) \/ req'[p].rooms = <<>>) )
             => TurnedAway(p)
          /\ pc[p] = "precheck" => Clean(p)
          /\ ( /\ pc[p] = "precheck" /\ Moves(p)
               /\ Doomed(req[p], ri[p]) )
             => TurnedAway(p)
          /\ ( /\ Moves(p) /\ pc'[p] = "idle"
               /\ result'[p].at \in {"validate", "precheck"} )
             => (store' = store /\ lock' = lock /\ dirty' = dirty)]_vars

\* a createMultiRoomBooking on fresh inventory was turned away on its second
\* room request, which names a room type absent from the catalog
C19_Witness ==
    \E p \in Procs :
        /\ Failed(p)
        /\ req[p].op = "multi"
        /\ result[p] = Err("RoomTypeNotFound", "precheck", 0, 2)
        /\ Clean(p)
        /\ bookings = <<>>
        /\ inv = generate_inventory

\* the change of available_rooms of row k when footprint f is taken
Taken(f, k) ==
    IF k[1] = f.room_type_id /\ k[2] \in Nights(f) THEN f.num_rooms ELSE 0

\* the footprint modifyBooking reserves for request r
NewFootprint(r) ==
    [room_type_id |-> r.rooms[1].room_type_id, check_in |-> r.check_in,
     check_out |-> r.check_out, num_rooms |-> r.rooms[1].quantity]

\* C20: modifyBooking called on a booking that is CANCELLED or whose check-in
\* is in the past fails with BookingNotModifiable and changes nothing; the
\* commit of a modifyBooking leaves the booking's status as it was (CONFIRMED),
\* gives it the new footprint, and leaves every inventory record at its value
\* before the call plus the rooms of the old footprint minus those of the
\* new one.
C20_Modify ==
    [][\A p \in Procs :
          /\ \A b \in 1..Len(bookings) :
                ( /\ Calls(p, "modify")
                  /\ req'[p].booking_id = b
                  /\ (bookings[b].status = CANCELLED \/ bookings[b].check_in < Today) )
                => /\ result'[p].kind = "BookingNotModifiable"
                   /\ pc'[p] = "idle"
                   /\ store' = store
                   /\ lock' = lock
                   /\ dirty' = dirty
          /\ ( /\ pc[p] = "commit" /\ req[p].op = "modify" /\ Moves(p) )
             => /\ result'[p].kind = "ok"
                /\ bookings[req[p].booking_id].status = CONFIRMED
                /\ bookings'[req[p].booking_id].status = CONFIRMED
                /\ Footprint(bookings[req[p].booking_id]) = req[p].old
                /\ Footprint(bookings'[req[p].booking_id]) = NewFootprint(req[p])
                /\ \A k \in DOMAIN inv :
                      inv'[k].available_rooms =
                          inv[k].available_rooms + Taken(req[p].old, k)
                              - Taken(NewFootprint(req[p]), k)]_vars

\* a modifyBooking that supplied a new room type and a new quantity only
\* went through: the booking is CONFIRMED on the new room type for the dates
\* it had, and every record of today and later holds total_rooms minus the
\* rooms of the CONFIRMED bookings
C20_Witness ==
    \E p \in Procs :
        /\ Done(p)
        /\ result[p].kind = "ok"
        /\ req[p].op = "modify"
        /\ req[p].rooms[1].room_type_id # req[p].old.room_type_id
        /\ req[p].rooms[1].quantity # req[p].old.num_rooms
        /\ req[p].check_in = req[p].old.check_in
        /\ req[p].check_out = req[p].old.check_out
        /\ bookings[req[p].booking_id].status = CONFIRMED
        /\ Footprint(bookings[req[p].booking_id]) = NewFootprint(req[p])
        /\ \A k \in DOMAIN inv :
              k[2] >= Today => inv[k].available_rooms = total_rooms(k[1]) - Reserved(k)

\* the prices of the records of room type rt on the dates d..(end - 1), added
\* up date by date
RECURSIVE PriceFrom(_, _, _)
PriceFrom(rt, d, end) ==
    IF d >= end THEN 0 ELSE inv[<<rt, d>>].price + PriceFrom(rt, d + 1, end)

\* C21: a check on a range every date of which has a record returns as
\* min_available the smallest available_rooms of the records of the range,
\* as total_price the sum of their prices times the quantity, and as
\* is_available whether min_available >= quantity, whatever the counts and
\* prices of the records and whatever the quantity.
C21_CheckResult ==
    \A p \in Procs :
        ( /\ Done(p)
          /\ req[p].op = "check"
          /\ WellFormed(req[p]) )
        => LET rt == req[p].rooms[1].room_type_id
               n == req[p].rooms[1].quantity
               out == result[p]
           IN  /\ out.kind = "ok"
               /\ \A d \in Nights(req[p]) :
                     out.min_available <= inv[<<rt, d>>].available_rooms
               /\ \E d \in Nights(req[p]) :
                     out.min_available = inv[<<rt, d>>].available_rooms
               /\ out.total_price
                     = PriceFrom(rt, req[p].check_in, req[p].check_out) * n
               /\ out.is_available = (out.min_available >= n)
               /\ out.is_available
                     = (\A d \in Nights(req[p]) : inv[<<rt, d>>].available_rooms >= n)

\* a check of two rooms over two dates whose records differ in count and in
\* price: the later, scarcer date decides the answer
C21_Witness ==
    \E p \in Procs :
        /\ Done(p)
        /\ req[p].op = "check"
        /\ req[p].check_in = Today /\ req[p].check_out = Today + 2
        /\ req[p].rooms[1] = [room_type_id |-> 1, quantity |-> 2]
        /\ inv[<<1, Today>>] = [available_rooms |-> 2, price |-> 1]
        /\ inv[<<1, Today + 1>>] = [available_rooms |-> 1, price |-> 2]
        /\ result[p].kind = "ok"
        /\ result[p].min_available = 1
        /\ result[p].total_price = 6
        /\ ~result[p].is_available
\* C22: check, createBooking and createMultiRoomBooking fail with
\* InvalidDateRange whenever end_date <= start_date or start_date < today,
\* that failure locks and changes nothing, and a range that starts today and
\* ends later is never refused as an invalid range.
C22_InvalidDateRange ==
    [][\A p \in Procs :
          /\ \A op \in {"check", "create", "multi"} :
                ( /\ Calls(p, op)
                  /\ BadDates(req'[p]) )
                => /\ result'[p].kind = "InvalidDateRange"
                   /\ pc'[p] = "idle"
                   /\ store' = store
                   /\ lock' = lock
                   /\ dirty' = dirty
          /\ ( /\ Moves(p)
               /\ req'[p].op \in {"check", "create", "multi"}
               /\ result'[p].kind = "InvalidDateRange" )
             => /\ pc[p] = "idle"
                /\ BadDates(req'[p])]_vars

\* a check of a range that starts today was answered while a createBooking
\* with yesterday as check-in was refused; no row is locked or changed
C22_Witness ==
    \E p \in Procs : \E q \in Procs \ {p} :
        /\ Done(p)
        /\ req[p].op = "check"
        /\ req[p].check_in = Today
        /\ result[p].kind = "ok"
        /\ Failed(q)
        /\ req[q].op = "create"
        /\ req[q].check_in = Today - 1
        /\ req[q].check_out > req[q].check_in
        /\ result[q].kind = "InvalidDateRange"
        /\ inv = generate_inventory
        /\ bookings = <<>>
        /\ \A k \in Keys : lock[k] = 0
\* request r names a room type of the catalog and a valid range, some date of
\* which has no inventory record
MissingDate(r) ==
    /\ ~BadDates(r)
    /\ r.rooms[1].room_type_id \in RoomTypes
    /\ \E d \in Nights(r) : <<r.rooms[1].room_type_id, d>> \notin DOMAIN inv

\* the step of session p is a check or a createBooking call on a range with
\* a missing record: InventoryNotFound, nothing created, locked or changed
NotFoundAtCall(p) ==
    \A op \in {"check", "create"} :
        ( /\ Calls(p, op)
          /\ MissingDate(req'[p]) )
        => /\ result'[p].kind = "InventoryNotFound"
           /\ pc'[p] = "idle"
           /\ store' = store
           /\ lock' = lock
           /\ dirty' = dirty

\* the step of session p ends a reserve_inventory call made on its own
\* (not by a booking handler) on a range with a missing record
EndsReserve(p) ==
    /\ pc[p] = "reserve"
    /\ req[p].op = "scope"
    /\ MissingDate(req[p])
    /\ pc'[p] # "reserve"

\* C23 as stated: if any date of [start, end) has no inventory record, check
\* and reserve fail with InventoryNotFound, never with InventoryUnavailable,
\* and createBooking fails creating nothing.
C23_MissingRecord ==
    [][\A p \in Procs :
          /\ NotFoundAtCall(p)
          /\ EndsReserve(p)
             => /\ result'[p].kind = "InventoryNotFound"
                /\ store' = store
                /\ Clean(p)']_vars

\* C23 amended: if any date of [start, end) has no inventory record, check
\* and createBooking fail with InventoryNotFound and createBooking creates
\* nothing; reserve fails with InventoryNotFound at the first date without a
\* record, unless an earlier date of the range holds fewer rooms than
\* requested: then it fails with InventoryUnavailable for that earlier date.
\* Either way reserve changes nothing, and the date without a record itself
\* is never reported as InventoryUnavailable.
C23_MissingRecordReached ==
    [][\A p \in Procs :
          /\ NotFoundAtCall(p)
          /\ ( /\ pc[p] = "reserve" /\ Moves(p)
               /\ <<req[p].rooms[ri[p]].room_type_id, di[p]>> \notin DOMAIN inv )
             => /\ result'[p] = Err("InventoryNotFound", "reserve", di[p], ri[p])
                /\ pc'[p] = "idle"
                /\ store' = store
                /\ Clean(p)'
          /\ EndsReserve(p)
             => /\ pc'[p] = "idle"
                /\ store' = store
                /\ Clean(p)'
                /\ \/ result'[p].kind = "InventoryNotFound"
                   \/ /\ result'[p].kind = "InventoryUnavailable"
                      /\ <<req[p].rooms[1].room_type_id, di[p]>> \in DOMAIN inv
                      /\ Avail(p, <<req[p].rooms[1].room_type_id, di[p]>>)
                            < req[p].rooms[1].quantity
                      /\ \A d \in req[p].check_in..di[p] :
                            <<req[p].rooms[1].room_type_id, d>> \in DOMAIN inv]_vars

\* a reserve_inventory call over a range that runs one date past the horizon
\* deducted the dates of the horizon, found no record for the last date and
\* failed with InventoryNotFound; the records are as generated
C23_Witness ==
    \E p \in Procs :
        /\ Failed(p)
        /\ req[p].op = "scope"
        /\ req[p].check_out = Horizon + 2
        /\ result[p] = Err("InventoryNotFound", "reserve", Horizon + 1, 1)
        /\ Clean(p)
        /\ inv = generate_inventory
        /\ bookings = <<>>
\* C24: every failure of createMultiRoomBooking is an InvalidDateRange, a
\* RoomTypeNotFound or an InventoryUnavailable; an empty request list and a
\* requested date without an inventory record are rejected with one of
\* these three kinds too.
C24_MultiErrorKinds ==
    \A p \in Procs :
        ( /\ Failed(p)
          /\ req[p].op = "multi" )
        => result[p].kind \in {"InvalidDateRange", "RoomTypeNotFound",
                               "InventoryUnavailable"}
\* the quantities of room requests 1..i added up, and the amount of room
\* requests 1..i of request r: per request the prices of the inventory
\* records of its room type over the nights of the stay, times its quantity
RECURSIVE QuantityUpTo(_, _)
QuantityUpTo(rooms, i) ==
    IF i = 0 THEN 0 ELSE rooms[i].quantity + QuantityUpTo(rooms, i - 1)

RECURSIVE AmountUpTo(_, _)
AmountUpTo(r, i) ==
    IF i = 0 THEN 0
    ELSE PriceFrom(r.rooms[i].room_type_id, r.check_in, r.check_out)
             * r.rooms[i].quantity
         + AmountUpTo(r, i - 1)

\* rooms of room type rt that room requests 1..i ask for
RECURSIVE AskedUpTo(_, _, _)
AskedUpTo(rooms, rt, i) ==
    IF i = 0 THEN 0
    ELSE (IF rooms[i].room_type_id = rt THEN rooms[i].quantity ELSE 0)
         + AskedUpTo(rooms, rt, i - 1)

\* C25: the step that completes a createMultiRoomBooking inserts exactly one
\* parent booking, CONFIRMED, whose num_rooms is the sum of the requested
\* quantities and whose total_amount is the sum over the requests of (sum of
\* the per-date inventory prices) x quantity, inserts exactly one BookingItem
\* per request carrying that request's room type and quantity, and deducts
\* each request's quantity from the records of its room type on every date
\* of [check_in, check_out); no other record changes.
C25_MultiEffect ==
    [][\A p \in Procs :
          ( /\ pc[p] = "commit"
            /\ req[p].op = "multi"
            /\ Moves(p) )
          => LET r == req[p]
                 b == Len(bookings) + 1
                 new == items' \ items
             IN  /\ result'[p].kind = "ok"
                 /\ Len(bookings') = b
                 /\ \A i \in 1..Len(bookings) : bookings'[i] = bookings[i]
                 /\ bookings'[b].status = CONFIRMED
                 /\ bookings'[b].check_in = r.check_in
                 /\ bookings'[b].check_out = r.check_out
                 /\ bookings'[b].num_rooms = QuantityUpTo(r.rooms, Len(r.rooms))
                 /\ bookings'[b].total_amount = AmountUpTo(r, Len(r.rooms))
                 /\ items \subseteq items'
                 /\ Cardinality(new) = Len(r.rooms)
                 /\ \A it \in new : it.booking_id = b
                 /\ \A i \in 1..Len(r.rooms) :
                       Cardinality({it \in new :
                           /\ it.line = i
                           /\ it.room_type_id = r.rooms[i].room_type_id
                           /\ it.quantity = r.rooms[i].quantity}) = 1
                 /\ DOMAIN inv' = DOMAIN inv
                 /\ \A k \in DOMAIN inv :
                       /\ inv'[k].price = inv[k].price
                       /\ inv'[k].available_rooms
                             = inv[k].available_rooms
                               - (IF k[2] \in Nights(r)
                                  THEN AskedUpTo(r.rooms, k[1], Len(r.rooms))
                                  ELSE 0)]_vars

\* one room of room type 1 and two of room type 2 were booked together for
\* the whole horizon: one booking of three rooms, two items, the amount of
\* all nights of all three rooms, and the records of both room types deducted
C25_Witness ==
    \E p \in Procs :
        /\ Done(p)
        /\ result[p].kind = "ok"
        /\ req[p].op = "multi"
        /\ req[p].rooms = <<[room_type_id |-> 1, quantity |-> 1],
                            [room_type_id |-> 2, quantity |-> 2]>>
        /\ Len(bookings) = 1
        /\ bookings[1].status = CONFIRMED
        /\ bookings[1].num_rooms = 3
        /\ bookings[1].total_amount
              = (Horizon + 1 - Today) * (base_price(1) + 2 * base_price(2))
        /\ Cardinality(items) = 2
        /\ \A d \in Dates :
              /\ inv[<<1, d>>].available_rooms = total_rooms(1) - 1
              /\ inv[<<2, d>>].available_rooms = total_rooms(2) - 2
\* C26: every InventoryUnavailable a createBooking ends with, from the
\* re-check under the lock as well as from the advisory check before the
\* scope, carries the offending date: a date of the requested range whose
\* record holds fewer rooms than requested.
C26_UnavailableCarriesDate ==
    [][\A p \in Procs :
          ( /\ Moves(p)
            /\ req'[p].op = "create"
            /\ result'[p].kind = "InventoryUnavailable" )
          => LET k == <<req'[p].rooms[1].room_type_id, result'[p].date>>
             IN  /\ result'[p].date \in Nights(req'[p])
                 /\ k \in DOMAIN inv
                 /\ Avail(p, k) < req'[p].rooms[1].quantity]_vars
\* C27: the step that completes a cancelBooking of a CONFIRMED single-room
\* booking adds num_rooms to available_rooms of exactly the records of the
\* booking's room type on [check_in, check_out), sets the status CANCELLED,
\* appends the reason to the notes when one was given, and leaves the
\* booking's dates, room type, num_rooms and amount, every other booking and
\* every other inventory record as they were; so when the records stood at
\* total_rooms minus the rooms of the CONFIRMED bookings before, they do
\* after, the cancelled booking's rooms given back.
C27_CancelEffect ==
    [][\A p \in Procs :
          ( /\ pc[p] = "commit"
            /\ req[p].op = "cancel"
            /\ Moves(p)
            /\ bookings[req[p].booking_id].status = CONFIRMED )
          => LET id == req[p].booking_id
                 b == bookings[id]
             IN  /\ result'[p].kind = "ok"
                 /\ DOMAIN inv' = DOMAIN inv
                 /\ \A k \in DOMAIN inv :
                       /\ inv'[k].price = inv[k].price
                       /\ inv'[k].available_rooms
                             = inv[k].available_rooms
                               + (IF k[1] = b.room_type_id /\ k[2] \in Nights(b)
                                  THEN b.num_rooms ELSE 0)
                 /\ bookings'[id].status = CANCELLED
                 /\ bookings'[id].notes
                       = (IF req[p].reason = NoReason THEN b.notes
                          ELSE b.notes \o <<<<"Cancellation reason", req[p].reason>>>>)
                 /\ Footprint(bookings'[id]) = Footprint(b)
                 /\ bookings'[id].total_amount = b.total_amount
                 /\ bookings'[id].customer_id = b.customer_id
                 /\ Len(bookings') = Len(bookings)
                 /\ \A i \in 1..Len(bookings) : i # id => bookings'[i] = bookings[i]
                 /\ items' = items
                 /\ customers' = customers
                 /\ (\A k \in DOMAIN inv :
                        inv[k].available_rooms = total_rooms(k[1]) - Reserved(k))
                    => (\A k \in DOMAIN inv :
                          inv'[k].available_rooms = total_rooms(k[1]) - Reserved(k)')]_vars

\* a booking of the first night only was made and then cancelled with a
\* reason: it is CANCELLED, its notes hold the reason, and every record is
\* back at the value it was generated with
C27_Witness ==
    \E p \in Procs :
        /\ Done(p)
        /\ result[p].kind = "ok"
        /\ req[p].op = "cancel"
        /\ req[p].reason # NoReason
        /\ Len(bookings) = 1
        /\ bookings[1].status = CANCELLED
        /\ bookings[1].check_out = Today + 1
        /\ bookings[1].num_rooms = Most
        /\ bookings[1].notes = <<<<"Cancellation reason", req[p].reason>>>>
        /\ inv = generate_inventory
\* room request i of request r finds enough rooms in the committed records
\* of every night of the stay
CommittedEnough(r, i) ==
    \A d \in Nights(r) :
        inv[<<r.rooms[i].room_type_id, d>>].available_rooms >= r.rooms[i].quantity

\* C28: the advisory check acquires no lock and changes no record; a
\* concurrent reservation never blocks it (it runs, and answers from the
\* committed records, whoever holds the locks on them and whatever that
\* session has deducted without committing) and it blocks no reservation;
\* its answer is advisory: a call that was told the rooms are available can
\* still fail in the reserve that follows (see C28_Witness).
C28_CheckIsAdvisory ==
    [][\A p \in Procs :
          /\ ( \/ Calls(p, "create")
               \/ Calls(p, "multi")
               \/ (pc[p] = "precheck" /\ Moves(p)) )
             => /\ store' = store
                /\ lock' = lock
                /\ dirty' = dirty
          /\ pc[p] = "precheck" => ENABLED multi_precheck(p)
          /\ ( /\ Calls(p, "create")
               /\ WellFormed(req'[p]) )
             => (pc'[p] = "reserve") = CommittedEnough(req'[p], 1)
          /\ ( /\ pc[p] = "precheck" /\ Moves(p)
               /\ req[p].rooms[ri[p]].room_type_id \in RoomTypes )
             => (pc'[p] # "idle") = CommittedEnough(req[p], ri[p])]_vars

\* a createBooking was told by the advisory check that the rooms are there,
\* another booking of the same room type committed before it got the lock,
\* and its reserve failed on a date whose committed record now holds fewer
\* rooms than it asked for
C28_Witness ==
    \E p \in Procs :
        /\ Failed(p)
        /\ req[p].op = "create"
        /\ result[p].kind = "InventoryUnavailable"
        /\ result[p].at = "reserve"
        /\ inv[<<req[p].rooms[1].room_type_id, result[p].date>>].available_rooms
              < req[p].rooms[1].quantity
        /\ \E b \in 1..Len(bookings) :
              /\ bookings[b].status = CONFIRMED
              /\ bookings[b].room_type_id = req[p].rooms[1].room_type_id
              /\ result[p].date \in Nights(bookings[b])
\* C29: after any sequence of createBooking and createMultiRoomBooking
\* calls, concurrent ones included, no two Customer rows hold the same
\* email: a call with an email that has a row reuses it, and two concurrent
\* calls with the same new email do not both insert one.
C29_OneCustomerPerEmail ==
    \A i \in 1..Len(customers) : \A j \in 1..Len(customers) :
        customers[i] = customers[j] => i = j
\* C30: a generation run for a room type leaves every record that exists as
\* it is (its count, deducted or not, and its price), creates a record
\* holding total_rooms for exactly the dates of the run that had none, and
\* returns the number of records it created; so after any sequence of runs
\* every date a run covered has its one record, and a run over dates that
\* all have a record creates 0 records and changes nothing.
C30_GenerateIdempotent ==
    [][\A p \in Procs :
          Calls(p, "generate")
          => LET r == req'[p]
                 new == DOMAIN inv' \ DOMAIN inv
             IN  /\ result'[p].kind = "ok"
                 /\ \A k \in DOMAIN inv : k \in DOMAIN inv' /\ inv'[k] = inv[k]
                 /\ \A k \in new :
                       /\ k[1] = r.room_type_id
                       /\ k[2] \in r.dates
                       /\ inv'[k].available_rooms = total_rooms(k[1])
                 /\ r.room_type_id \in RoomTypes
                    => \A d \in r.dates : <<r.room_type_id, d>> \in DOMAIN inv'
                 /\ result'[p].created_count = Cardinality(new)
                 /\ (\A d \in r.dates : <<r.room_type_id, d>> \in DOMAIN inv)
                    => (result'[p].created_count = 0 /\ inv' = inv)
                 /\ <<bookings, items, customers, lock, dirty>>'
                       = <<bookings, items, customers, lock, dirty>>]_vars

\* after a booking took rooms of room type 1 for the whole horizon, a run
\* over the horizon and the date after it created the one record that was
\* missing; the records of the horizon still hold the deducted count
C30_Witness ==
    \E p \in Procs :
        /\ Done(p)
        /\ req[p].op = "generate"
        /\ req[p].room_type_id = 1
        /\ req[p].dates = Today..(Horizon + 1)
        /\ result[p].created_count = 1
        /\ Len(bookings) = 1
        /\ inv[<<1, Horizon + 1>>].available_rooms = total_rooms(1)
        /\ \A d \in Dates :
              inv[<<1, d>>].available_rooms = total_rooms(1) - bookings[1].num_rooms
\* C31: the total_amount a createBooking stores is the value its reserve
\* accumulated under the row locks, the sum over the dates of the stay of
\* the record's price times the quantity as the records stand when the
\* booking commits, whatever the advisory check had estimated; the estimate
\* itself is that sum over the records as they stood at the check, so the
\* two are equal when no price changed in between.
C31_TotalFromReserve ==
    [][\A p \in Procs :
          /\ ( /\ Calls(p, "create")
               /\ pc'[p] = "reserve" )
             => acc'[p].est
                  = PriceFrom(req'[p].rooms[1].room_type_id, req'[p].check_in,
                              req'[p].check_out) * req'[p].rooms[1].quantity
          /\ ( /\ pc[p] = "commit"
               /\ req[p].op = "create"
               /\ Moves(p) )
             => /\ Len(bookings') = Len(bookings) + 1
                /\ bookings'[Len(bookings')].total_amount
                      = PriceFrom(req[p].rooms[1].room_type_id, req[p].check_in,
                                  req[p].check_out) * req[p].rooms[1].quantity
                /\ bookings'[Len(bookings')].total_amount = acc[p].total]_vars

\* a createBooking has reserved its dates and is about to store an amount
\* that differs from the estimate of its advisory check: the price of a
\* record was changed after the check and before the record was locked
C31_Witness ==
    \E p \in Procs :
        /\ pc[p] = "commit"
        /\ req[p].op = "create"
        /\ acc[p].total # acc[p].est
        /\ acc[p].total
              = PriceFrom(req[p].rooms[1].room_type_id, req[p].check_in,
                          req[p].check_out) * req[p].rooms[1].quantity
        /\ \E q \in Procs \ {p} : Done(q) /\ req[q].op = "price"
\* C32: conservation: in every committed state, for every (room type, date)
\* that has an inventory record, available_rooms plus the rooms that the
\* CONFIRMED bookings and booking items hold of that room type on that date
\* is total_rooms of the room type.
C32_Conservation ==
    \A k \in DOMAIN inv :
        inv[k].available_rooms + Reserved(k) = total_rooms(k[1])

\* C33: when the only booking made on freshly generated inventory was a
\* createMultiRoomBooking and it has been cancelled, every inventory record
\* of every room type is back at the count it was generated with: each room
\* type got back exactly the rooms that were deducted from it.
C33_MultiRoundTrip ==
    ( /\ Len(bookings) = 1
      /\ bookings[1].status = CANCELLED
      /\ \E it \in items : it.booking_id = 1 )
    => inv = generate_inventory
\* C34: concurrent createMultiRoomBooking and cancelBooking calls, which
\* touch more than one room type between them, never reach a state in which
\* each session of some group waits for a row lock held by another session
\* of the group (no session of such a group could go on to commit or roll
\* back by itself).
C34_NoMultiRoomDeadlock ==
    \A S \in SUBSET Procs :
        S # {} =>
            ~ \A p \in S :
                  /\ pc[p] # "idle"
                  /\ req[p].op \in {"multi", "cancel"}
                  /\ \E q \in S \ {p} : WaitsFor(p, q)
\* quantity x price_per_night x number of nights of the BookingItems on
\* lines 1..i of booking id b, whose stay is [check_in, check_out)
RECURSIVE ItemsAmountUpTo(_, _)
ItemsAmountUpTo(b, i) ==
    IF i = 0 THEN 0
    ELSE LET it == CHOOSE x \in items : x.booking_id = b /\ x.line = i
         IN  it.quantity * it.price_per_night
                 * (bookings[b].check_out - bookings[b].check_in)
             + ItemsAmountUpTo(b, i - 1)

\* C35: every booking that createMultiRoomBooking created (a booking that
\* has BookingItems) carries a total_amount equal to the sum over its
\* BookingItems of quantity x price_per_night x number of nights, whatever
\* the prices of the inventory records are.
C35_TotalMatchesItems ==
    \A b \in 1..Len(bookings) :
        LET mine == {it \in items : it.booking_id = b}
        IN  mine # {} =>
                bookings[b].total_amount = ItemsAmountUpTo(b, Cardinality(mine))
\* the room request on line i names a room type that an earlier line of the
\* same request names too
Repeats(rooms, i) ==
    \E j \in 1..(i - 1) : rooms[j].room_type_id = rooms[i].room_type_id

\* C36: a createMultiRoomBooking that names a room type on several lines
\* (whether or not each line alone fits available_rooms): the reserve step of
\* a repeated line on a date where the lines so far together ask for more
\* than available_rooms rejects the call with InventoryUnavailable and
\* leaves every inventory record as it was, with nothing pending; where they
\* fit, the record is held down by their combined quantity; and the commit of
\* such a booking takes the combined quantity of each room type off every
\* date of the stay.
C36_RepeatedRoomType ==
    [][\A p \in Procs :
          ( /\ req[p].op = "multi"
            /\ Moves(p) )
          => LET r == req[p]
                 i == ri[p]
             IN  /\ ( /\ pc[p] = "reserve"
                      /\ Repeats(r.rooms, i)
                      /\ <<r.rooms[i].room_type_id, di[p]>> \in DOMAIN inv )
                    => LET rt == r.rooms[i].room_type_id
                           k == <<rt, di[p]>>
                           combined == AskedUpTo(r.rooms, rt, i)
                       IN  /\ IF combined > inv[k].available_rooms
                              THEN /\ result'[p].kind = "InventoryUnavailable"
                                   /\ result'[p].at = "reserve"
                                   /\ pc'[p] = "idle"
                                   /\ inv' = inv
                                   /\ dirty'[p] = NoDirty
                                   /\ bookings' = bookings
                                   /\ items' = items
                              ELSE /\ pc'[p] # "idle"
                                   /\ inv' = inv
                                   /\ dirty'[p][k] = 0 - combined
                 /\ ( /\ pc[p] = "commit"
                      /\ \E j \in 1..Len(r.rooms) : Repeats(r.rooms, j) )
                    => \A k \in DOMAIN inv :
                          inv'[k].available_rooms =
                              IF k[2] \in Nights(r)
                              THEN inv[k].available_rooms
                                       - AskedUpTo(r.rooms, k[1], Len(r.rooms))
                              ELSE inv[k].available_rooms]_vars

C36_Witness ==
    \E p \in Procs : \E q \in Procs \ {p} :
        /\ Failed(p)
        /\ req[p].op = "multi"
        /\ req[p].rooms = <<[room_type_id |-> 1, quantity |-> 2],
                            [room_type_id |-> 1, quantity |-> 1]>>
        /\ result[p].kind = "InventoryUnavailable"
        /\ result[p].at = "reserve"
        /\ result[p].line = 2
        /\ \A d \in Dates : inv[<<1, d>>].available_rooms = total_rooms(1)
        /\ Done(q)
        /\ result[q].kind = "ok"
        /\ req[q].op = "multi"
        /\ req[q].rooms = <<[room_type_id |-> 2, quantity |-> 1],
                            [room_type_id |-> 2, quantity |-> 1]>>
        /\ \A d \in Dates : inv[<<2, d>>].available_rooms = total_rooms(2) - 2
====
